---- MODULE Spec2Model ----
(***************************************************************************)
(* State-machine model of the cluster commands of                          *)
(* saharaclient/osc/v1/clusters.py: CreateCluster, ListClusters,           *)
(* ShowCluster, DeleteCluster, UpdateCluster and ScaleCluster.             *)
(*                                                                         *)
(* One behaviour is one run of one command.  Every call the command makes  *)
(* on a collaborator (data-processing client, network client, lookup and   *)
(* wait utilities) is one step and is appended to `calls` with its result. *)
(* A Python value None is the string "None" for string-valued arguments    *)
(* and the empty sequence for --count (<<n>> is the integer n).            *)
(***************************************************************************)
EXTENDS Integers, Sequences, FiniteSets, TLC

VARIABLES
    cmd,          \* the command being run
    args,         \* parsed_args as given on the command line
    pc,           \* position in take_action
    calls,        \* collaborator calls made so far, in order
    logs,         \* messages written with self.log.error
    outcome,      \* "running", "ok" or the exception that left take_action
    data,         \* local variable data
    dataSrc,      \* index in calls of the call that returned data (0: none)
    count,        \* parsed_args.count (CreateCluster overwrites it)
    clusters,     \* local list clusters (create batch, delete)
    idx,          \* position of the running for loop
    request,      \* payload of the mutating request (template, kwargs)
    scale_object, \* local scale_object of ScaleCluster
    pending,      \* keys of scale_node_groups not yet iterated
    result,       \* value returned by take_action
    blob,         \* contents of the file named by --json
    cluster       \* local variable cluster of ScaleCluster

vars == <<cmd, args, pc, calls, logs, outcome, data, dataSrc, count, clusters,
          idx, request, scale_object, pending, result, blob, cluster>>

(***************************************************************************)
(* Bounds                                                                  *)
(***************************************************************************)
MaxCount == 2
NumClusters == 2
MaxDelete == 2
MaxNodeGroups == 2

(***************************************************************************)
(* Values                                                                  *)
(***************************************************************************)
None == "None"
NoDict == <<>>

\* Python truth value of a string argument: None and "" are false.
Truthy(s) == s # None /\ s # ""

\* Python truth value of parsed_args.count: None and 0 are false.
CountTruthy(c) == c # <<>> /\ c[1] # 0

ApiErrors == {"APIException_404", "APIException_500"}

ClusterId(i) == "id" \o ToString(i)
ClusterName(i) == "c" \o ToString(i)
Ids == {ClusterId(i) : i \in 1..NumClusters}
NameOfId(id) == ClusterName(CHOOSE i \in 1..NumClusters : ClusterId(i) = id)

CLUSTER_FIELDS == {"cluster_template_id", "use_autoconfig", "user_keypair_id",
                   "status", "image", "node_groups", "id",
                   "anti_affinity", "version", "name", "is_transient",
                   "is_protected", "description", "is_public",
                   "neutron_management_network", "plugin_name"}

\* Keys of a cluster record as the service returns it.
RecordKeys == (CLUSTER_FIELDS \ {"version", "image"})
                 \cup {"hadoop_version", "default_image_id", "tenant_id"}

NgNames == {"ng1", "ng2"}

RECURSIVE Join(_, _)
Join(sep, seq) ==
    IF seq = <<>> THEN ""
    ELSE IF Len(seq) = 1 THEN seq[1]
    ELSE seq[1] \o sep \o Join(sep, Tail(seq))

\* The cluster record of cluster id in status st, with current node groups ngs.
ClusterRecord(id, st, ngs) ==
    [k \in RecordKeys |->
        CASE k = "id" -> id
          [] k = "name" -> NameOfId(id)
          [] k = "status" -> st
          [] k = "hadoop_version" -> "2.7.1"
          [] k = "default_image_id" -> "img-id"
          [] k = "node_groups" -> ngs
          [] k = "anti_affinity" -> <<"datanode", "namenode">>
          [] OTHER -> k \o "-value"]

DefaultNodeGroups == <<[name |-> "ng1", count |-> 1]>>

(***************************************************************************)
(* Pure functions of the module                                            *)
(***************************************************************************)
format_node_groups_list(node_groups) ==
    Join(", ", [i \in 1..Len(node_groups) |->
                  node_groups[i].name \o ":" \o ToString(node_groups[i].count)])

format_list(l) == Join(", ", l)

format_cluster_output(d) ==
    [k \in (DOMAIN d \ {"hadoop_version", "default_image_id"})
              \cup {"version", "image"} |->
        CASE k = "version" -> d["hadoop_version"]
          [] k = "image" -> d["default_image_id"]
          [] k = "node_groups" -> format_node_groups_list(d["node_groups"])
          [] k = "anti_affinity" -> format_list(d["anti_affinity"])
          [] OTHER -> d[k]]

\* Keys _format_cluster_output reads; a missing one raises KeyError.
FormatKeys == {"hadoop_version", "default_image_id", "node_groups", "anti_affinity"}

\* Column label of a field: f.replace('_', ' ').capitalize().
ColumnLabel(f) ==
    CASE f = "cluster_template_id" -> "Cluster template id"
      [] f = "use_autoconfig" -> "Use autoconfig"
      [] f = "user_keypair_id" -> "User keypair id"
      [] f = "status" -> "Status"
      [] f = "image" -> "Image"
      [] f = "node_groups" -> "Node groups"
      [] f = "id" -> "Id"
      [] f = "anti_affinity" -> "Anti affinity"
      [] f = "version" -> "Version"
      [] f = "name" -> "Name"
      [] f = "is_transient" -> "Is transient"
      [] f = "is_protected" -> "Is protected"
      [] f = "description" -> "Description"
      [] f = "is_public" -> "Is public"
      [] f = "neutron_management_network" -> "Neutron management network"
      [] f = "plugin_name" -> "Plugin name"

\* utils.prepare_data: the fields of the whitelist that data holds, by label.
prepare_data(d, fields) ==
    [l \in {ColumnLabel(f) : f \in (DOMAIN d \cap fields)} |->
        d[CHOOSE f \in (DOMAIN d \cap fields) : ColumnLabel(f) = l]]

(***************************************************************************)
(* Inputs                                                                  *)
(***************************************************************************)
Counts == {<<>>} \cup {<<n>> : n \in 0..MaxCount}

\* The options that are only copied into the create request.
Extras == {[description |-> None, user_keypair |-> None, public |-> FALSE,
            protected |-> FALSE, transient |-> FALSE],
           [description |-> "d", user_keypair |-> "kp", public |-> TRUE,
            protected |-> TRUE, transient |-> TRUE]}

CreateArgs ==
    [name : {None, "", "c1"}, cluster_template : {None, "", "ct"},
     image : {None, "", "img"}, extras : Extras,
     neutron_network : {None, "net"}, count : Counts,
     json : {None, "cluster.json"}, wait : BOOLEAN]

\* A JSON cluster template: the mandatory keys, and optionally
\* neutron_management_network and count.
JsonTemplate(hasNet, c) ==
    [k \in {"name", "plugin_name", "hadoop_version"}
              \cup (IF hasNet THEN {"neutron_management_network"} ELSE {})
              \cup (IF c # <<>> THEN {"count"} ELSE {}) |->
        CASE k = "count" -> c
          [] OTHER -> "json-" \o k]

\* What the file named by --json holds: valid is FALSE when it cannot be
\* read or is not JSON.
CreateBlobs ==
    {[valid |-> FALSE, template |-> NoDict]}
        \cup {[valid |-> TRUE, template |-> JsonTemplate(n, c)] :
                 n \in BOOLEAN, c \in Counts}

NoBlob == [valid |-> FALSE, template |-> NoDict]

\* The sequences of distinct cluster ids of length 1..n.
DistinctIdSeqs(n) ==
    UNION {{s \in [1..l -> Ids] : \A i, j \in 1..l : s[i] = s[j] => i = j} :
             l \in 1..n}

Statuses == {"Active", "Error"}

(***************************************************************************)
(* Steps shared by the commands                                            *)
(***************************************************************************)
Call(op, arg, res) == calls' = Append(calls, [op |-> op, arg |-> arg, res |-> res])

\* An exception leaves take_action.
Raise(e) == outcome' = e /\ pc' = "done"

\* A collaborator call fails: its exception leaves take_action.
Fails(op, arg) ==
    \E e \in ApiErrors :
        /\ Call(op, arg, e)
        /\ Raise(e)

Return(r) == result' = r /\ outcome' = "ok" /\ pc' = "done"

Init ==
    /\ cmd = "none"
    /\ args = NoDict
    /\ pc = "idle"
    /\ calls = <<>>
    /\ logs = <<>>
    /\ outcome = "running"
    /\ data = NoDict
    /\ dataSrc = 0
    /\ count = <<>>
    /\ clusters = <<>>
    /\ idx = 0
    /\ request = NoDict
    /\ scale_object = NoDict
    /\ pending = {}
    /\ result = NoDict
    /\ blob = NoBlob
    /\ cluster = NoDict

(***************************************************************************)
(* CreateCluster.take_action                                               *)
(***************************************************************************)
InvokeCreate ==
    /\ pc = "idle"
    /\ \E a \in CreateArgs, b \in CreateBlobs :
        /\ IF Truthy(a.json)
           THEN a.name \in {None, "c1"} /\ a.cluster_template \in {None, "ct"}
                /\ a.image \in {None, "img"}
           ELSE b = NoBlob
        /\ args' = a
        /\ blob' = b
        /\ count' = a.count
    /\ cmd' = "create"
    /\ pc' = "c_begin"
    /\ UNCHANGED <<calls, logs, outcome, data, dataSrc, clusters, idx, request,
                   scale_object, pending, result, cluster>>

\* Lines 146-147: neutron_management_network is passed as net_id.
RenameNet(template) ==
    IF "neutron_management_network" \in DOMAIN template
    THEN [k \in (DOMAIN template \ {"neutron_management_network"}) \cup {"net_id"} |->
            IF k = "net_id" THEN template["neutron_management_network"]
            ELSE template[k]]
    ELSE template

\* Lines 149-150: the count of the JSON replaces --count when there is one.
CountAfterJson(template, c) ==
    IF "count" \in DOMAIN template THEN template["count"] ELSE c

\* Variant of CreateLoadJson that goes on with an empty template when the
\* file cannot be loaded.
CreateLoadJson_lenient ==
    /\ pc = "c_begin" /\ cmd = "create"
    /\ Truthy(args.json)
    /\ request' = RenameNet(blob.template)
    /\ count' = CountAfterJson(blob.template, count)
    /\ pc' = "c_create"
    /\ UNCHANGED <<cmd, args, calls, logs, outcome, data, dataSrc, clusters, idx,
                   scale_object, pending, result, blob, cluster>>

\* Lines 137-150.
CreateLoadJson ==
    /\ pc = "c_begin" /\ cmd = "create"
    /\ Truthy(args.json)
    /\ IF ~blob.valid
       THEN /\ Raise("CommandError")
            /\ UNCHANGED <<request, count>>
       ELSE /\ request' = RenameNet(blob.template)
            /\ count' = CountAfterJson(blob.template, count)
            /\ pc' = "c_create"
            /\ UNCHANGED outcome
    /\ UNCHANGED <<cmd, args, calls, logs, data, dataSrc, clusters, idx,
                   scale_object, pending, result, blob, cluster>>

\* Variant of CreateArgsMissing that forgets to test --image.
CreateArgsMissing_without_image(a) ==
    ~Truthy(a.name) \/ ~Truthy(a.cluster_template)

\* Lines 154-155.
CreateArgsMissing(a) ==
    ~Truthy(a.name) \/ ~Truthy(a.cluster_template) \/ ~Truthy(a.image)

\* Lines 153-159.
CreateValidate ==
    /\ pc = "c_begin" /\ cmd = "create"
    /\ ~Truthy(args.json)
    /\ IF CreateArgsMissing(args)
       THEN Raise("CommandError")
       ELSE pc' = "c_template" /\ UNCHANGED outcome
    /\ UNCHANGED <<cmd, args, calls, logs, data, dataSrc, count, clusters, idx,
                   request, scale_object, pending, result, blob, cluster>>

\* Lines 161-162 and 46-48: _get_plugin_version.
CreateGetPluginVersion ==
    /\ pc = "c_template" /\ cmd = "create"
    /\ \/ /\ Call("get_resource:cluster_templates", args.cluster_template, "ok")
          /\ pc' = "c_image"
          /\ UNCHANGED outcome
       \/ Fails("get_resource:cluster_templates", args.cluster_template)
    /\ UNCHANGED <<cmd, args, logs, data, dataSrc, count, clusters, idx,
                   request, scale_object, pending, result, blob, cluster>>

\* Line 164.
CreateGetImage ==
    /\ pc = "c_image" /\ cmd = "create"
    /\ \/ /\ Call("get_resource_id:images", args.image, "ok")
          /\ pc' = "c_net"
          /\ UNCHANGED outcome
       \/ Fails("get_resource_id:images", args.image)
    /\ UNCHANGED <<cmd, args, logs, data, dataSrc, count, clusters, idx,
                   request, scale_object, pending, result, blob, cluster>>

\* The keyword arguments of lines 170-183.
CreateKwargs(a, c) ==
    [name |-> a.name,
     plugin_name |-> "plugin-of-" \o a.cluster_template,
     hadoop_version |-> "version-of-" \o a.cluster_template,
     cluster_template_id |-> "id-of-" \o a.cluster_template,
     default_image_id |-> "id-of-" \o a.image,
     description |-> a.extras.description,
     is_transient |-> a.extras.transient,
     user_keypair_id |-> a.extras.user_keypair,
     net_id |-> IF Truthy(a.neutron_network)
                THEN "id-of-" \o a.neutron_network ELSE None,
     count |-> c,
     is_public |-> a.extras.public,
     is_protected |-> a.extras.protected]

\* Lines 166-168: the network is looked up only when --neutron-network is given.
CreateFindNetwork ==
    /\ pc = "c_net" /\ cmd = "create"
    /\ IF Truthy(args.neutron_network)
       THEN \/ /\ Call("find_attr:networks", args.neutron_network, "ok")
               /\ pc' = "c_create"
               /\ request' = CreateKwargs(args, count)
               /\ UNCHANGED outcome
            \/ /\ Fails("find_attr:networks", args.neutron_network)
               /\ UNCHANGED request
       ELSE /\ pc' = "c_create"
            /\ request' = CreateKwargs(args, count)
            /\ UNCHANGED <<calls, outcome>>
    /\ UNCHANGED <<cmd, args, logs, data, dataSrc, count, clusters, idx,
                   scale_object, pending, result, blob, cluster>>

\* The count the create request carries.
SentCount(kwargs) == IF "count" \in DOMAIN kwargs THEN kwargs["count"] ELSE <<>>

\* What clusters.create returns for the request: the list of the created
\* clusters' ids when several are asked for, the cluster's record otherwise.
CreateResponses(kwargs) ==
    IF SentCount(kwargs) # <<>> /\ SentCount(kwargs)[1] > 1
    THEN {[clusters |-> s] : s \in DistinctIdSeqs(NumClusters)}
    ELSE {ClusterRecord(id, "Validating", DefaultNodeGroups) : id \in Ids}

\* Lines 152 and 170-183.
CreateRequest ==
    /\ pc = "c_create" /\ cmd = "create"
    /\ \/ /\ Call("clusters.create", "-", "ok")
          /\ \E r \in CreateResponses(request) : data' = r
          /\ dataSrc' = Len(calls')
          /\ pc' = "c_branch"
          /\ UNCHANGED outcome
       \/ /\ Fails("clusters.create", "-")
          /\ UNCHANGED <<data, dataSrc>>
    /\ UNCHANGED <<cmd, args, logs, count, clusters, idx, request,
                   scale_object, pending, result, blob, cluster>>

\* Line 184.
IsBatch(c) == CountTruthy(c) /\ c[1] > 1

\* Lines 184 and 201-202: the branch on the count.
CreateBranch ==
    /\ pc = "c_branch" /\ cmd = "create"
    /\ pc' = IF IsBatch(count) THEN "c_batch"
             ELSE IF args.wait THEN "c_wait" ELSE "c_format"
    /\ UNCHANGED <<cmd, args, calls, logs, outcome, data, dataSrc, count,
                   clusters, idx, request, scale_object, pending, result, blob,
                   cluster>>

\* Lines 185-187: the batch branch reads data['clusters'].
CreateBatchBegin ==
    /\ pc = "c_batch" /\ cmd = "create"
    /\ IF "clusters" \in DOMAIN data
       THEN /\ pc' = "c_fetch"
            /\ idx' = 1
            /\ UNCHANGED outcome
       ELSE /\ Raise("KeyError")
            /\ UNCHANGED idx
    /\ UNCHANGED <<cmd, args, calls, logs, data, dataSrc, count, clusters,
                   request, scale_object, pending, result, blob, cluster>>

\* Lines 185-189: one get_resource per id of the response.
CreateFetchClusters ==
    /\ pc = "c_fetch" /\ cmd = "create"
    /\ LET id == data["clusters"][idx] IN
       \/ /\ Call("get_resource:clusters", id, "ok")
          /\ clusters' = Append(clusters, [id |-> id, name |-> NameOfId(id)])
          /\ IF idx < Len(data["clusters"])
             THEN idx' = idx + 1 /\ UNCHANGED pc
             ELSE idx' = 1 /\ pc' = IF args.wait THEN "c_bwait" ELSE "c_bresult"
          /\ UNCHANGED outcome
       \/ /\ Fails("get_resource:clusters", id)
          /\ UNCHANGED <<clusters, idx>>
    /\ UNCHANGED <<cmd, args, logs, data, dataSrc, count, request,
                   scale_object, pending, result, blob, cluster>>

\* Lines 190-195: the error message is built from data['id'].
CreateBatchWait ==
    /\ pc = "c_bwait" /\ cmd = "create"
    /\ LET id == clusters[idx].id
           next == IF idx < Len(clusters)
                   THEN idx' = idx + 1 /\ UNCHANGED pc
                   ELSE idx' = idx /\ pc' = "c_bresult"
       IN
       \/ /\ Call("wait_for_status", id, "true")
          /\ next
          /\ UNCHANGED <<logs, outcome>>
       \/ /\ Call("wait_for_status", id, "false")
          /\ IF "id" \in DOMAIN data
             THEN /\ logs' = Append(logs, [msg |-> "creation", arg |-> data["id"]])
                  /\ next
                  /\ UNCHANGED outcome
             ELSE /\ Raise("KeyError")
                  /\ UNCHANGED <<logs, idx>>
       \/ /\ Fails("wait_for_status", id)
          /\ UNCHANGED <<logs, idx>>
    /\ UNCHANGED <<cmd, args, data, dataSrc, count, clusters, request,
                   scale_object, pending, result, blob, cluster>>

\* Lines 197-199: a dict from cluster name to cluster id.
NameToId(cs) ==
    [n \in {cs[i].name : i \in 1..Len(cs)} |->
        cs[CHOOSE i \in 1..Len(cs) :
              cs[i].name = n /\ \A j \in i+1..Len(cs) : cs[j].name # n].id]

\* Lines 197-199 and 212.
CreateBatchResult ==
    /\ pc = "c_bresult" /\ cmd = "create"
    /\ data' = NameToId(clusters)
    /\ Return(data')
    /\ UNCHANGED <<cmd, args, calls, logs, dataSrc, count, clusters, idx,
                   request, scale_object, pending, blob, cluster>>

\* Variant of CreateWait that fetches the cluster again only after a
\* successful wait.
CreateWait_refetch_on_success ==
    /\ pc = "c_wait" /\ cmd = "create"
    /\ IF "id" \notin DOMAIN data
       THEN Raise("KeyError") /\ UNCHANGED <<calls, logs>>
       ELSE \/ /\ Call("wait_for_status", data["id"], "true")
               /\ pc' = "c_get"
               /\ UNCHANGED <<logs, outcome>>
            \/ /\ Call("wait_for_status", data["id"], "false")
               /\ logs' = Append(logs, [msg |-> "creation", arg |-> data["id"]])
               /\ pc' = "c_format"
               /\ UNCHANGED outcome
            \/ /\ Fails("wait_for_status", data["id"])
               /\ UNCHANGED logs
    /\ UNCHANGED <<cmd, args, data, dataSrc, count, clusters, idx, request,
                   scale_object, pending, result, blob, cluster>>

\* Lines 203-207.
CreateWait ==
    /\ pc = "c_wait" /\ cmd = "create"
    /\ IF "id" \notin DOMAIN data
       THEN Raise("KeyError") /\ UNCHANGED <<calls, logs>>
       ELSE \/ /\ Call("wait_for_status", data["id"], "true")
               /\ pc' = "c_get"
               /\ UNCHANGED <<logs, outcome>>
            \/ /\ Call("wait_for_status", data["id"], "false")
               /\ logs' = Append(logs, [msg |-> "creation", arg |-> data["id"]])
               /\ pc' = "c_get"
               /\ UNCHANGED outcome
            \/ /\ Fails("wait_for_status", data["id"])
               /\ UNCHANGED logs
    /\ UNCHANGED <<cmd, args, data, dataSrc, count, clusters, idx, request,
                   scale_object, pending, result, blob, cluster>>

\* Line 208.
CreateRefetch ==
    /\ pc = "c_get" /\ cmd = "create"
    /\ \/ /\ Call("clusters.get", data["id"], "ok")
          /\ \E st \in Statuses :
                data' = ClusterRecord(data["id"], st, DefaultNodeGroups)
          /\ dataSrc' = Len(calls')
          /\ pc' = "c_format"
          /\ UNCHANGED outcome
       \/ /\ Fails("clusters.get", data["id"])
          /\ UNCHANGED <<data, dataSrc>>
    /\ UNCHANGED <<cmd, args, logs, count, clusters, idx, request,
                   scale_object, pending, result, blob, cluster>>

\* _format_cluster_output, utils.prepare_data and dict2columns on data.
FormatAndReturn ==
    IF FormatKeys \subseteq DOMAIN data
    THEN /\ data' = prepare_data(format_cluster_output(data), CLUSTER_FIELDS)
         /\ Return(data')
    ELSE /\ Raise("KeyError")
         /\ UNCHANGED <<data, result>>

\* Lines 209-212.
CreateFormat ==
    /\ pc = "c_format" /\ cmd = "create"
    /\ FormatAndReturn
    /\ UNCHANGED <<cmd, args, calls, logs, dataSrc, count, clusters, idx,
                   request, scale_object, pending, blob, cluster>>

(***************************************************************************)
(* ListClusters.take_action                                                *)
(***************************************************************************)
ListArgs ==
    [long : BOOLEAN, plugin : {None, "vanilla"}, version : {None, "2.7.1"},
     name : {None, "c", "1"}]

InvokeList ==
    /\ pc = "idle"
    /\ \E a \in ListArgs : args' = a
    /\ cmd' = "list"
    /\ pc' = "l_list"
    /\ UNCHANGED <<calls, logs, outcome, data, dataSrc, count, clusters, idx,
                   request, scale_object, pending, result, blob, cluster>>

\* Lines 252-256.
SearchOpts(a) ==
    [k \in (IF Truthy(a.plugin) THEN {"plugin_name"} ELSE {})
              \cup (IF Truthy(a.version) THEN {"hadoop_version"} ELSE {}) |->
        IF k = "plugin_name" THEN a.plugin ELSE a.version]

\* name in obj.name, for the names c1, c2, ... of the clusters.
NameContains(name, sub) ==
    sub = "c" \/ \E i \in 1..NumClusters : name = ClusterName(i) /\ sub = ToString(i)

RECURSIVE get_by_name_substring(_, _)
get_by_name_substring(l, sub) ==
    IF l = <<>> THEN <<>>
    ELSE (IF NameContains(l[1]["name"], sub) THEN <<l[1]>> ELSE <<>>)
            \o get_by_name_substring(Tail(l), sub)

\* Lines 264-274.
ListColumns(long) ==
    IF long
    THEN <<"name", "id", "plugin_name", "hadoop_version", "status",
           "description", "default_image_id">>
    ELSE <<"name", "id", "plugin_name", "hadoop_version", "status">>

\* utils.prepare_column_headers with the remapping of lines 267-268.
ColumnHeaders(columns) ==
    [i \in 1..Len(columns) |->
        ColumnLabel(CASE columns[i] = "hadoop_version" -> "version"
                      [] columns[i] = "default_image_id" -> "image"
                      [] OTHER -> columns[i])]

\* Lines 258-281.
ListRequest ==
    /\ pc = "l_list" /\ cmd = "list"
    /\ \/ /\ Call("clusters.list", "-", "ok")
          /\ request' = SearchOpts(args)
          /\ \E s \in DistinctIdSeqs(NumClusters) \cup {<<>>} :
               LET all == [i \in 1..Len(s) |->
                              ClusterRecord(s[i], "Active", DefaultNodeGroups)]
                   kept == IF Truthy(args.name)
                           THEN get_by_name_substring(all, args.name) ELSE all
                   columns == ListColumns(args.long)
               IN /\ data' = kept
                  /\ Return([headers |-> ColumnHeaders(columns),
                             rows |-> [i \in 1..Len(kept) |->
                                         [j \in 1..Len(columns) |-> kept[i][columns[j]]]]])
          /\ dataSrc' = Len(calls')
       \/ /\ Fails("clusters.list", "-")
          /\ UNCHANGED <<data, dataSrc, request, result>>
    /\ UNCHANGED <<cmd, args, logs, count, clusters, idx, scale_object, pending,
                   blob, cluster>>

(***************************************************************************)
(* ShowCluster.take_action                                                 *)
(***************************************************************************)
\* A cluster is named on the command line by its name or by its id.
ClusterRefs == {ClusterName(i) : i \in 1..NumClusters} \cup Ids

ResolveCluster(ref) ==
    IF ref \in Ids THEN ref
    ELSE ClusterId(CHOOSE i \in 1..NumClusters : ClusterName(i) = ref)

InvokeShow ==
    /\ pc = "idle"
    /\ \E c \in ClusterRefs : args' = [cluster |-> c]
    /\ cmd' = "show"
    /\ pc' = "sh_lookup"
    /\ UNCHANGED <<calls, logs, outcome, data, dataSrc, count, clusters, idx,
                   request, scale_object, pending, result, blob, cluster>>

\* Lines 303-304.
ShowLookup ==
    /\ pc = "sh_lookup" /\ cmd = "show"
    /\ \/ /\ Call("get_resource:clusters", args.cluster, "ok")
          /\ \E st \in Statuses :
               data' = ClusterRecord(ResolveCluster(args.cluster), st, DefaultNodeGroups)
          /\ dataSrc' = Len(calls')
          /\ pc' = "sh_format"
          /\ UNCHANGED outcome
       \/ /\ Fails("get_resource:clusters", args.cluster)
          /\ UNCHANGED <<data, dataSrc>>
    /\ UNCHANGED <<cmd, args, logs, count, clusters, idx, request, scale_object,
                   pending, result, blob, cluster>>

\* Lines 306-309.
ShowFormat ==
    /\ pc = "sh_format" /\ cmd = "show"
    /\ FormatAndReturn
    /\ UNCHANGED <<cmd, args, calls, logs, dataSrc, count, clusters, idx,
                   request, scale_object, pending, blob, cluster>>

(***************************************************************************)
(* DeleteCluster.take_action                                               *)
(***************************************************************************)
DeleteArgs ==
    [cluster : UNION {[1..n -> ClusterRefs] : n \in 1..MaxDelete}, wait : BOOLEAN]

InvokeDelete ==
    /\ pc = "idle"
    /\ \E a \in DeleteArgs : args' = a
    /\ cmd' = "delete"
    /\ pc' = "d_lookup"
    /\ idx' = 1
    /\ UNCHANGED <<calls, logs, outcome, data, dataSrc, count, clusters,
                   request, scale_object, pending, result, blob, cluster>>

\* Variant of DeleteLookup that logs a failed lookup and goes on.
DeleteLookup_ignoring_errors ==
    /\ pc = "d_lookup" /\ cmd = "delete"
    /\ \/ /\ Call("get_resource_id:clusters", args.cluster[idx], "ok")
          /\ UNCHANGED logs
       \/ \E e \in ApiErrors :
             /\ Call("get_resource_id:clusters", args.cluster[idx], e)
             /\ logs' = Append(logs, [msg |-> "deleting", arg |-> args.cluster[idx]])
    /\ pc' = "d_delete"
    /\ UNCHANGED <<cmd, args, outcome, data, dataSrc, count, clusters, idx,
                   request, scale_object, pending, result, blob, cluster>>

\* Lines 338-340: cluster_id of the idx-th argument.
DeleteLookup ==
    /\ pc = "d_lookup" /\ cmd = "delete"
    /\ \/ /\ Call("get_resource_id:clusters", args.cluster[idx], "ok")
          /\ pc' = "d_delete"
          /\ UNCHANGED outcome
       \/ Fails("get_resource_id:clusters", args.cluster[idx])
    /\ UNCHANGED <<cmd, args, logs, data, dataSrc, count, clusters, idx,
                   request, scale_object, pending, result, blob, cluster>>

\* Variant of DeleteRequest that waits for each cluster right after its
\* delete request.
DeleteRequest_wait_each ==
    /\ pc = "d_delete" /\ cmd = "delete"
    /\ LET cluster_id == ResolveCluster(args.cluster[idx]) IN
       \/ /\ Call("clusters.delete", cluster_id, "ok")
          /\ clusters' = Append(clusters, cluster_id)
          /\ IF args.wait
             THEN /\ idx' = Len(clusters')
                  /\ pc' = "d_wait"
                  /\ UNCHANGED <<outcome, result>>
             ELSE IF idx < Len(args.cluster)
                  THEN /\ idx' = idx + 1
                       /\ pc' = "d_lookup"
                       /\ UNCHANGED <<outcome, result>>
                  ELSE /\ Return(None)
                       /\ UNCHANGED idx
       \/ /\ Fails("clusters.delete", cluster_id)
          /\ UNCHANGED <<clusters, idx, result>>
    /\ UNCHANGED <<cmd, args, logs, data, dataSrc, count, request,
                   scale_object, pending, blob, cluster>>

\* Lines 341-343.
DeleteRequest ==
    /\ pc = "d_delete" /\ cmd = "delete"
    /\ LET cluster_id == ResolveCluster(args.cluster[idx]) IN
       \/ /\ Call("clusters.delete", cluster_id, "ok")
          /\ clusters' = Append(clusters, cluster_id)
          /\ IF idx < Len(args.cluster)
             THEN /\ idx' = idx + 1
                  /\ pc' = "d_lookup"
                  /\ UNCHANGED <<outcome, result>>
             ELSE IF args.wait
                  THEN /\ idx' = 1
                       /\ pc' = "d_wait"
                       /\ UNCHANGED <<outcome, result>>
                  ELSE /\ Return(None)
                       /\ UNCHANGED idx
       \/ /\ Fails("clusters.delete", cluster_id)
          /\ UNCHANGED <<clusters, idx, result>>
    /\ UNCHANGED <<cmd, args, logs, data, dataSrc, count, request,
                   scale_object, pending, blob, cluster>>

\* Lines 344-348.
DeleteWait ==
    /\ pc = "d_wait" /\ cmd = "delete"
    /\ LET cluster_id == clusters[idx]
           next == IF idx < Len(clusters)
                   THEN idx' = idx + 1 /\ UNCHANGED <<pc, outcome, result>>
                   ELSE Return(None) /\ UNCHANGED idx
       IN
       \/ /\ Call("wait_for_delete", cluster_id, "true")
          /\ next
          /\ UNCHANGED logs
       \/ /\ Call("wait_for_delete", cluster_id, "false")
          /\ logs' = Append(logs, [msg |-> "deleting", arg |-> cluster_id])
          /\ next
       \/ /\ Fails("wait_for_delete", cluster_id)
          /\ UNCHANGED <<logs, idx, result>>
    /\ UNCHANGED <<cmd, args, data, dataSrc, count, clusters, request,
                   scale_object, pending, blob, cluster>>

(***************************************************************************)
(* UpdateCluster.take_action                                               *)
(***************************************************************************)
UpdateArgs ==
    [cluster : ClusterRefs, name : {None, "renamed"}, description : {None, "d"},
     is_public : {None, "True", "False"}, is_protected : {None, "True", "False"}]

InvokeUpdate ==
    /\ pc = "idle"
    /\ \E a \in UpdateArgs : args' = a
    /\ cmd' = "update"
    /\ pc' = "u_lookup"
    /\ UNCHANGED <<calls, logs, outcome, data, dataSrc, count, clusters, idx,
                   request, scale_object, pending, result, blob, cluster>>

\* Lines 410-411.
UpdateLookup ==
    /\ pc = "u_lookup" /\ cmd = "update"
    /\ \/ /\ Call("get_resource_id:clusters", args.cluster, "ok")
          /\ pc' = "u_update"
          /\ UNCHANGED outcome
       \/ Fails("get_resource_id:clusters", args.cluster)
    /\ UNCHANGED <<cmd, args, logs, data, dataSrc, count, clusters, idx,
                   request, scale_object, pending, result, blob, cluster>>

\* Lines 413-419.
UpdateRequest ==
    /\ pc = "u_update" /\ cmd = "update"
    /\ LET cluster_id == ResolveCluster(args.cluster) IN
       \/ /\ Call("clusters.update", cluster_id, "ok")
          /\ request' = [name |-> args.name, description |-> args.description,
                         is_public |-> args.is_public,
                         is_protected |-> args.is_protected]
          /\ \E st \in Statuses :
               data' = ClusterRecord(cluster_id, st, DefaultNodeGroups)
          /\ dataSrc' = Len(calls')
          /\ pc' = "u_format"
          /\ UNCHANGED outcome
       \/ /\ Fails("clusters.update", cluster_id)
          /\ UNCHANGED <<data, dataSrc, request>>
    /\ UNCHANGED <<cmd, args, logs, count, clusters, idx, scale_object, pending,
                   result, blob, cluster>>

\* Lines 421-424.
UpdateFormat ==
    /\ pc = "u_format" /\ cmd = "update"
    /\ FormatAndReturn
    /\ UNCHANGED <<cmd, args, calls, logs, dataSrc, count, clusters, idx,
                   request, scale_object, pending, blob, cluster>>

(***************************************************************************)
(* ScaleCluster.take_action                                                *)
(***************************************************************************)
\* A node group is named by the name or the id of its node group template.
NgRefs == NgNames \cup {"ngt1-id"}

\* utils.get_resource(client.node_group_templates, ref).
NgTemplate(ref) ==
    CASE ref = "ng1" -> [name |-> "ng1", id |-> "ngt1-id"]
      [] ref = "ngt1-id" -> [name |-> "ng1", id |-> "ngt1-id"]
      [] ref = "ng2" -> [name |-> "ng2", id |-> "ngt2-id"]

\* One word of --node-groups: "ref:count" (form "ok"), "ref:xyz" with a
\* count that is no integer (form "nonint"), or "ref" without colon.
NgItems ==
    {[ref |-> r, form |-> "ok", count |-> c] : r \in NgRefs, c \in 1..MaxCount}
        \cup {[ref |-> "ng1", form |-> f, count |-> 0] : f \in {"nonint", "nocolon"}}

\* --node-groups: None (the empty sequence) or one or more words.
NodeGroupArgs ==
    {<<>>} \cup UNION {[1..n -> NgItems] : n \in 1..MaxNodeGroups}

\* The node groups a cluster may currently have.
ClusterNodeGroups ==
    {<<>>, <<[name |-> "ng1", count |-> 1]>>,
     <<[name |-> "ng1", count |-> 1], [name |-> "ng2", count |-> 2]>>}

ScaleArgs ==
    [cluster : {ClusterName(1), ClusterId(1)}, node_groups : NodeGroupArgs,
     json : {None, "scale.json"}, wait : BOOLEAN]

ScaleBlobs ==
    {[valid |-> FALSE, template |-> NoDict],
     [valid |-> TRUE,
      template |-> [resize_node_groups |-> <<[name |-> "ng1", count |-> 2]>>]]}

InvokeScale ==
    /\ pc = "idle"
    /\ \E a \in ScaleArgs, b \in ScaleBlobs :
        /\ IF Truthy(a.json) THEN Len(a.node_groups) <= 1 ELSE b = NoBlob
        /\ args' = a
        /\ blob' = b
    /\ cmd' = "scale"
    /\ pc' = "s_lookup"
    /\ UNCHANGED <<calls, logs, outcome, data, dataSrc, count, clusters, idx,
                   request, scale_object, pending, result, cluster>>

\* Lines 467-468.
ScaleLookup ==
    /\ pc = "s_lookup" /\ cmd = "scale"
    /\ \/ /\ Call("get_resource:clusters", args.cluster, "ok")
          /\ \E ngs \in ClusterNodeGroups :
               cluster' = [id |-> ResolveCluster(args.cluster), node_groups |-> ngs]
          /\ pc' = IF Truthy(args.json) THEN "s_json" ELSE "s_parse"
          /\ UNCHANGED outcome
       \/ /\ Fails("get_resource:clusters", args.cluster)
          /\ UNCHANGED cluster
    /\ UNCHANGED <<cmd, args, logs, data, dataSrc, count, clusters, idx,
                   request, scale_object, pending, result, blob>>

\* Lines 470-477.
ScaleLoadJson ==
    /\ pc = "s_json" /\ cmd = "scale"
    /\ IF ~blob.valid
       THEN Raise("CommandError") /\ UNCHANGED request
       ELSE /\ request' = blob.template
            /\ pc' = "s_scale"
            /\ UNCHANGED outcome
    /\ UNCHANGED <<cmd, args, calls, logs, data, dataSrc, count, clusters, idx,
                   scale_object, pending, result, blob, cluster>>

\* Lines 485-486: the keys of dict(map(lambda x: x.split(':', 1), node_groups)).
ScaleKeys(node_groups) == {node_groups[i].ref : i \in 1..Len(node_groups)}

\* The value dict() keeps for a key: the one of its last occurrence.
ScaleValue(node_groups, ref) ==
    node_groups[CHOOSE i \in 1..Len(node_groups) :
                   /\ node_groups[i].ref = ref
                   /\ \A j \in i+1..Len(node_groups) : node_groups[j].ref # ref]

\* Lines 481-487.  map() over None raises TypeError; a word without colon
\* splits into one element, which dict() rejects with ValueError.
ScaleParse ==
    /\ pc = "s_parse" /\ cmd = "scale"
    /\ IF args.node_groups = <<>>
       THEN Raise("TypeError") /\ UNCHANGED <<scale_object, pending, request>>
       ELSE IF \E i \in 1..Len(args.node_groups) : args.node_groups[i].form = "nocolon"
       THEN Raise("ValueError") /\ UNCHANGED <<scale_object, pending, request>>
       ELSE /\ scale_object' = [add_node_groups |-> <<>>, resize_node_groups |-> <<>>]
            /\ pending' = ScaleKeys(args.node_groups)
            /\ pc' = "s_ng"
            /\ UNCHANGED <<outcome, request>>
    /\ UNCHANGED <<cmd, args, calls, logs, data, dataSrc, count, clusters, idx,
                   result, blob, cluster>>

\* Lines 501-504: the key of an empty list is deleted.
PruneEmpty(so) ==
    [k \in {key \in DOMAIN so : so[key] # <<>>} |-> so[k]]

\* Variant of ScaleEntry that looks for the template id among the names of
\* the cluster's node groups.
ScaleEntry_by_id(so, ng, cnt, cluster_node_groups) ==
    IF ng.id \in cluster_node_groups
    THEN [so EXCEPT !["resize_node_groups"] =
            Append(@, [name |-> ng.name, count |-> cnt])]
    ELSE [so EXCEPT !["add_node_groups"] =
            Append(@, [node_group_template_id |-> ng.id, name |-> ng.name,
                       count |-> cnt])]

\* Lines 490-500: the node group is resized when the cluster has one of its
\* name, and added otherwise.
ScaleEntry(so, ng, cnt, cluster_node_groups) ==
    IF ng.name \in cluster_node_groups
    THEN [so EXCEPT !["resize_node_groups"] =
            Append(@, [name |-> ng.name, count |-> cnt])]
    ELSE [so EXCEPT !["add_node_groups"] =
            Append(@, [node_group_template_id |-> ng.id, name |-> ng.name,
                       count |-> cnt])]

\* Lines 487-504: one iteration of the loop over scale_node_groups.items(),
\* in the order the dict yields its keys.
ScaleNodeGroup ==
    /\ pc = "s_ng" /\ cmd = "scale"
    /\ \E name \in pending :
        LET item == ScaleValue(args.node_groups, name)
            cluster_node_groups ==
                {cluster.node_groups[i].name : i \in 1..Len(cluster.node_groups)}
        IN
        \/ /\ Call("get_resource:node_group_templates", name, "ok")
           /\ IF item.form = "nonint"
              THEN /\ Raise("ValueError")
                   /\ UNCHANGED <<scale_object, pending, request>>
              ELSE /\ scale_object' = ScaleEntry(scale_object, NgTemplate(name),
                                                 item.count, cluster_node_groups)
                   /\ pending' = pending \ {name}
                   /\ IF pending' = {}
                      THEN /\ request' = PruneEmpty(scale_object')
                           /\ pc' = "s_scale"
                      ELSE UNCHANGED <<request, pc>>
                   /\ UNCHANGED outcome
        \/ /\ Fails("get_resource:node_group_templates", name)
           /\ UNCHANGED <<scale_object, pending, request>>
    /\ UNCHANGED <<cmd, args, logs, data, dataSrc, count, clusters, idx,
                   result, blob, cluster>>

\* Lines 479 and 506.
ScaleRequest ==
    /\ pc = "s_scale" /\ cmd = "scale"
    /\ \/ /\ Call("clusters.scale", cluster.id, "ok")
          /\ data' = ClusterRecord(cluster.id, "Scaling", cluster.node_groups)
          /\ dataSrc' = Len(calls')
          /\ pc' = IF args.wait THEN "s_wait" ELSE "s_format"
          /\ UNCHANGED outcome
       \/ /\ Fails("clusters.scale", cluster.id)
          /\ UNCHANGED <<data, dataSrc>>
    /\ UNCHANGED <<cmd, args, logs, count, clusters, idx, request,
                   scale_object, pending, result, blob, cluster>>

\* Lines 508-513.
ScaleWait ==
    /\ pc = "s_wait" /\ cmd = "scale"
    /\ IF "id" \notin DOMAIN data
       THEN Raise("KeyError") /\ UNCHANGED <<calls, logs>>
       ELSE \/ /\ Call("wait_for_status", data["id"], "true")
               /\ pc' = "s_get"
               /\ UNCHANGED <<logs, outcome>>
            \/ /\ Call("wait_for_status", data["id"], "false")
               /\ logs' = Append(logs, [msg |-> "scaling", arg |-> cluster.id])
               /\ pc' = "s_get"
               /\ UNCHANGED outcome
            \/ /\ Fails("wait_for_status", data["id"])
               /\ UNCHANGED logs
    /\ UNCHANGED <<cmd, args, data, dataSrc, count, clusters, idx, request,
                   scale_object, pending, result, blob, cluster>>

\* Line 514.
ScaleRefetch ==
    /\ pc = "s_get" /\ cmd = "scale"
    /\ \/ /\ Call("clusters.get", cluster.id, "ok")
          /\ \E st \in Statuses :
               data' = ClusterRecord(cluster.id, st, cluster.node_groups)
          /\ dataSrc' = Len(calls')
          /\ pc' = "s_format"
          /\ UNCHANGED outcome
       \/ /\ Fails("clusters.get", cluster.id)
          /\ UNCHANGED <<data, dataSrc>>
    /\ UNCHANGED <<cmd, args, logs, count, clusters, idx, request,
                   scale_object, pending, result, blob, cluster>>

\* Lines 516-519.
ScaleFormat ==
    /\ pc = "s_format" /\ cmd = "scale"
    /\ FormatAndReturn
    /\ UNCHANGED <<cmd, args, calls, logs, dataSrc, count, clusters, idx,
                   request, scale_object, pending, blob, cluster>>

Next ==
    \/ InvokeCreate \/ CreateLoadJson \/ CreateValidate
    \/ CreateGetPluginVersion \/ CreateGetImage \/ CreateFindNetwork
    \/ CreateRequest \/ CreateBranch \/ CreateBatchBegin \/ CreateFetchClusters
    \/ CreateBatchWait \/ CreateBatchResult \/ CreateWait \/ CreateRefetch
    \/ CreateFormat
    \/ InvokeList \/ ListRequest
    \/ InvokeShow \/ ShowLookup \/ ShowFormat
    \/ InvokeDelete \/ DeleteLookup \/ DeleteRequest \/ DeleteWait
    \/ InvokeUpdate \/ UpdateLookup \/ UpdateRequest \/ UpdateFormat
    \/ InvokeScale \/ ScaleLookup \/ ScaleLoadJson \/ ScaleParse
    \/ ScaleNodeGroup \/ ScaleRequest \/ ScaleWait \/ ScaleRefetch
    \/ ScaleFormat

Spec == Init /\ [][Next]_vars

(***************************************************************************)
(* Properties                                                              *)
(***************************************************************************)
Done == pc = "done"

CallIdx(ops) == {i \in 1..Len(calls) : calls[i].op \in ops}

NoCallFailed == \A i \in 1..Len(calls) : calls[i].res \notin ApiErrors

MutatingOps == {"clusters.create", "clusters.update", "clusters.delete",
                "clusters.scale"}

WaitOps == {"wait_for_status", "wait_for_delete"}

FailedWaits == {i \in CallIdx(WaitOps) : calls[i].res = "false"}

\* The calls that translate a name-or-ID argument into a resource.  In
\* CreateCluster get_resource on clusters fetches the created clusters by id.
ArgLookups ==
    {i \in 1..Len(calls) :
        /\ calls[i].op \in {"get_resource:cluster_templates", "get_resource_id:images",
                            "find_attr:networks", "get_resource_id:clusters",
                            "get_resource:node_group_templates",
                            "get_resource:clusters"}
        /\ ~(cmd = "create" /\ calls[i].op = "get_resource:clusters")}

\* The pc values of the batch branch of CreateCluster (lines 185-199).
BatchPcs == {"c_batch", "c_fetch", "c_bwait", "c_bresult"}

\* The pc values of the other branch (lines 202-210).
SinglePcs == {"c_wait", "c_get", "c_format"}

\* C1: a wait that reports failure is logged and not escalated: the command
\* logs one error per failed wait, waits on every remaining cluster and
\* ends normally (single create, batch create, delete, scale).
C1_FailedWaitLoggedNotEscalated ==
    (FailedWaits # {} /\ NoCallFailed) =>
        /\ outcome \in {"running", "ok"}
        /\ Len(logs) = Cardinality(FailedWaits)
        /\ Done => Cardinality(CallIdx(WaitOps)) =
                      (IF clusters # <<>> THEN Len(clusters) ELSE 1)

\* C2: a create without --json in which --name, --cluster-template or
\* --image is missing or empty ends with CommandError before any call to a
\* client.
C2_CreateValidation ==
    (/\ cmd = "create"
     /\ ~Truthy(args.json)
     /\ (\/ args.name \in {None, ""}
         \/ args.cluster_template \in {None, ""}
         \/ args.image \in {None, ""}))
    => /\ calls = <<>>
       /\ pc \in {"c_begin", "done"}
       /\ Done => outcome = "CommandError"

\* C2 case: a create without --json and with an empty --image has ended.
C2_Witness ==
    /\ cmd = "create" /\ Done
    /\ args.json = None
    /\ args.name = "c1" /\ args.cluster_template = "ct" /\ args.image = ""
    /\ outcome = "CommandError"
    /\ calls = <<>>

\* C3: a scale without --json and without --node-groups ends with
\* CommandError, and no scale request is sent.
C3_ScaleRequiresNodeGroups ==
    (cmd = "scale" /\ ~Truthy(args.json) /\ args.node_groups = <<>>) =>
        /\ CallIdx({"clusters.scale"}) = {}
        /\ (Done /\ NoCallFailed) => outcome = "CommandError"

\* C4: with --json, whether a creation is handled as a batch depends on the
\* JSON alone: it is a batch exactly when the JSON has a count above 1,
\* whatever --count says.
C4_JsonAloneDecidesBatch ==
    (cmd = "create" /\ Truthy(args.json) /\ pc \in BatchPcs \cup SinglePcs) =>
        (pc \in BatchPcs <=>
            ("count" \in DOMAIN blob.template /\ blob.template["count"][1] > 1))

\* C5, as first stated: every run of create, update, delete and scale that
\* returns sends exactly one mutating request, every name-or-ID lookup comes
\* before it, and nothing is sent when validation or JSON loading fails.
C5_ExactlyOneRequest ==
    cmd \in {"create", "update", "delete", "scale"} =>
        /\ (Done /\ outcome = "ok") => Cardinality(CallIdx(MutatingOps)) = 1
        /\ \A i \in ArgLookups : \A j \in CallIdx(MutatingOps) : i < j
        /\ outcome = "CommandError" => CallIdx(MutatingOps) = {}

\* C5, amended: create, update and scale send at most one mutating request,
\* exactly one when they return, and every argument lookup comes before it; a
\* delete sends one delete request per cluster argument, each right after
\* that cluster's lookup; nothing is sent when validation or JSON loading
\* fails.
C5_RequestOrder ==
    /\ cmd \in {"create", "update", "scale"} =>
        /\ Cardinality(CallIdx(MutatingOps)) <= 1
        /\ (Done /\ outcome = "ok") => Cardinality(CallIdx(MutatingOps)) = 1
        /\ \A i \in ArgLookups : \A j \in CallIdx(MutatingOps) : i < j
    /\ cmd = "delete" =>
        /\ Cardinality(CallIdx(MutatingOps)) <= Len(args.cluster)
        /\ (Done /\ outcome = "ok") =>
              Cardinality(CallIdx(MutatingOps)) = Len(args.cluster)
        /\ \A j \in CallIdx(MutatingOps) :
              /\ j > 1
              /\ calls[j-1].op = "get_resource_id:clusters"
              /\ calls[j-1].res = "ok"
              /\ calls[j-1].arg = args.cluster[j \div 2]
              /\ calls[j].arg = ResolveCluster(args.cluster[j \div 2])
    /\ (/\ cmd \in {"create", "scale"}
        /\ \/ Truthy(args.json) /\ ~blob.valid
           \/ outcome = "CommandError")
       => CallIdx(MutatingOps) = {}

\* C5 case: a delete of two clusters has returned after two delete requests.
C5_Witness ==
    /\ cmd = "delete" /\ Done /\ outcome = "ok"
    /\ Len(args.cluster) = 2
    /\ CallIdx(MutatingOps) = {2, 4}
    /\ ArgLookups = {1, 3}

\* C6: a failing client call ends the command with that same error: it is
\* the last call made, the error is the outcome, and the only errors logged
\* are those of waits that reported failure.
C6_ApiErrorsPropagate ==
    /\ \A i \in 1..Len(calls) :
          calls[i].res \in ApiErrors =>
              /\ i = Len(calls)
              /\ Done
              /\ outcome = calls[i].res
    /\ Len(logs) <= Cardinality(FailedWaits)

\* C6 case: the lookup of the second cluster of a delete has failed.
C6_Witness ==
    /\ cmd = "delete" /\ Done
    /\ Len(calls) = 3
    /\ calls[3].op = "get_resource_id:clusters"
    /\ calls[3].res = "APIException_500"
    /\ outcome = "APIException_500"

\* The count C7 calls effective: the count of the JSON when it has one,
\* --count otherwise.
EffectiveCount ==
    IF Truthy(args.json) /\ "count" \in DOMAIN blob.template
    THEN blob.template["count"] ELSE args.count

\* C7: a creation is a batch exactly when the effective count is above 1; a
\* batch fetches every id of the create response and returns one
\* name-to-id entry per created cluster; any other creation returns the
\* cluster's record restricted to the whitelist, hadoop_version shown as
\* version and default_image_id as image.
C7_BatchAndSingleResult ==
    cmd = "create" =>
        /\ pc \in BatchPcs \cup SinglePcs =>
              (pc \in BatchPcs <=> (EffectiveCount # <<>> /\ EffectiveCount[1] > 1))
        /\ (Done /\ NoCallFailed /\ CallIdx({"clusters.create"}) # {}) =>
              /\ outcome = "ok"
              /\ IF EffectiveCount # <<>> /\ EffectiveCount[1] > 1
                 THEN /\ clusters # <<>>
                      /\ Cardinality(DOMAIN result) = Len(clusters)
                      /\ \A i \in 1..Len(clusters) :
                            /\ result[NameOfId(clusters[i].id)] = clusters[i].id
                            /\ \E j \in CallIdx({"get_resource:clusters"}) :
                                  calls[j].arg = clusters[i].id
                 ELSE /\ DOMAIN result = {ColumnLabel(f) : f \in CLUSTER_FIELDS}
                      /\ result["Version"] = "2.7.1"
                      /\ result["Image"] = "img-id"

\* The elements of a list of the scale request, the empty list when the
\* request has no such key.
RequestList(key) == IF key \in DOMAIN request THEN request[key] ELSE <<>>

\* The count given last for a node group on the command line.
LastCountFor(ref) ==
    args.node_groups[CHOOSE i \in 1..Len(args.node_groups) :
                        /\ args.node_groups[i].ref = ref
                        /\ \A j \in 1..Len(args.node_groups) :
                              args.node_groups[j].ref = ref => j <= i].count

\* C8: in a scale without --json every distinct node group named is in
\* exactly one list of the request with its count: resize_node_groups when
\* the cluster has a node group of the resolved name, add_node_groups with
\* the template id otherwise; no list of the request is empty; exactly one
\* scale request is sent, for the cluster looked up.
C8_ScaleRequest ==
    (cmd = "scale" /\ ~Truthy(args.json) /\ CallIdx({"clusters.scale"}) # {}) =>
        LET named == {args.node_groups[i].ref : i \in 1..Len(args.node_groups)}
            current == {cluster.node_groups[i].name : i \in 1..Len(cluster.node_groups)}
            add == RequestList("add_node_groups")
            resize == RequestList("resize_node_groups")
        IN /\ DOMAIN request \subseteq {"add_node_groups", "resize_node_groups"}
           /\ \A k \in DOMAIN request : request[k] # <<>>
           /\ Len(add) + Len(resize) = Cardinality(named)
           /\ \A r \in named :
                 LET ng == NgTemplate(r)
                     c == LastCountFor(r)
                 IN IF ng.name \in current
                    THEN /\ \E i \in 1..Len(resize) :
                               resize[i] = [name |-> ng.name, count |-> c]
                         /\ \A i \in 1..Len(add) : add[i].name # ng.name
                    ELSE /\ \E i \in 1..Len(add) :
                               add[i] = [node_group_template_id |-> ng.id,
                                         name |-> ng.name, count |-> c]
                         /\ \A i \in 1..Len(resize) : resize[i].name # ng.name
           /\ Cardinality(CallIdx({"clusters.scale"})) = 1
           /\ \A j \in CallIdx({"clusters.scale"}) :
                 /\ calls[j].arg = cluster.id
                 /\ calls[1].op = "get_resource:clusters"
                 /\ calls[1].arg = args.cluster
                 /\ cluster.id = ResolveCluster(args.cluster)

\* C8 case: a scale request with a node group to add and one to resize.
C8_Witness ==
    /\ cmd = "scale" /\ args.json = None
    /\ Len(args.node_groups) = 2
    /\ CallIdx({"clusters.scale"}) # {}
    /\ DOMAIN request = {"add_node_groups", "resize_node_groups"}

\* C9: a delete resolves and deletes its clusters one at a time in argument
\* order, sends every delete request before the first wait, and waits in the
\* same order; when resolving or deleting the k-th cluster fails, the
\* requests for clusters 1..k-1 have been sent, none is sent for a later
\* cluster and no wait is made, even with --wait.
C9_DeleteOrder ==
    cmd = "delete" =>
        LET n == Len(args.cluster) IN
        /\ \A i \in 1..Len(calls) :
              IF i <= 2 * n
              THEN IF i % 2 = 1
                   THEN /\ calls[i].op = "get_resource_id:clusters"
                        /\ calls[i].arg = args.cluster[(i + 1) \div 2]
                   ELSE /\ calls[i].op = "clusters.delete"
                        /\ calls[i].arg = ResolveCluster(args.cluster[i \div 2])
              ELSE /\ args.wait
                   /\ i - 2 * n <= n
                   /\ calls[i].op = "wait_for_delete"
                   /\ calls[i].arg = ResolveCluster(args.cluster[i - 2 * n])
        /\ \A i \in 1..Len(calls) :
              (i <= 2 * n /\ calls[i].res # "ok") =>
                  /\ i = Len(calls)
                  /\ Done
                  /\ outcome # "ok"
        /\ (Done /\ outcome = "ok") =>
              Len(calls) = IF args.wait THEN 3 * n ELSE 2 * n

\* C9 case: with --wait, the delete request of the second cluster has failed.
C9_Witness ==
    /\ cmd = "delete" /\ Done
    /\ args.wait
    /\ Len(args.cluster) = 2
    /\ Len(calls) = 4
    /\ calls[2].op = "clusters.delete" /\ calls[2].res = "ok"
    /\ calls[4].op = "clusters.delete" /\ calls[4].res \in ApiErrors

\* C10: with --wait a single create and a scale display the record fetched
\* after the wait has ended, whether it succeeded or failed; without --wait
\* they make no wait and no fetch and display the record the create or scale
\* request returned.
C10_DisplayedRecord ==
    (/\ Done /\ outcome = "ok"
     /\ \/ cmd = "scale"
        \/ cmd = "create" /\ clusters = <<>>)
    => /\ result = data
       /\ dataSrc \in 1..Len(calls)
       /\ IF args.wait
          THEN /\ Cardinality(CallIdx({"wait_for_status"})) = 1
               /\ Cardinality(CallIdx({"clusters.get"})) = 1
               /\ dataSrc = Len(calls)
               /\ calls[dataSrc].op = "clusters.get"
               /\ calls[dataSrc - 1].op = "wait_for_status"
               /\ calls[dataSrc - 1].res \in {"true", "false"}
               /\ result["Status"] \in Statuses
          ELSE /\ CallIdx({"wait_for_status"}) = {}
               /\ CallIdx({"clusters.get"}) = {}
               /\ calls[dataSrc].op \in {"clusters.create", "clusters.scale"}
               /\ result["Status"] \in {"Validating", "Scaling"}

\* C10 case: a single create with --wait has returned after a failed wait.
C10_Witness ==
    /\ cmd = "create" /\ Done /\ outcome = "ok"
    /\ clusters = <<>>
    /\ args.wait
    /\ FailedWaits # {}
    /\ calls[dataSrc].op = "clusters.get"

====
